---- MODULE Spec2Model ----
(***************************************************************************)
(* Model of challenge-2/agents/fraud_alert_foundry_agent.py: a linear      *)
(* script that creates an agent, a thread, a message and a run on a hosted *)
(* agent service, polls the run while approving MCP tool calls, and then   *)
(* lists the run steps and the messages.                                   *)
(*                                                                         *)
(* The script is one sequential process (pc).  The hosted service is a     *)
(* second process that owns the run (svc) and moves it between statuses    *)
(* on its own; the script only sees it through runs.get.  Remote calls are *)
(* assumed to return normally.  Whether building the approval of a tool    *)
(* call raises (the try block of lines 108-118) is a property of the tool  *)
(* call: the construction is a pure function of it.  Run statuses move     *)
(* forward only: a run asks for action at most once.                       *)
(***************************************************************************)
EXTENDS Integers, Sequences, FiniteSets

(* ---- bounds of the model ---- *)
MaxPolls == 4
MaxCalls == 2

(* ---- values of the program ---- *)
ActiveStatuses == {"queued", "in_progress", "requires_action"}

TerminalStatuses == {"completed", "failed", "cancelled"}

McpHeaders == {"Ocp-Apim-Subscription-Key"}

(* A listed tool call: its id, whether it is a RequiredMcpToolCall, and    *)
(* whether building its approval (lines 109-116) raises an exception.  The *)
(* try block is only entered for MCP tool calls.                           *)
ToolCalls ==
    {tc \in [id : 1..MaxCalls, mcp : BOOLEAN, raises : BOOLEAN] :
        tc.raises => tc.mcp}

(* The lists of tool calls a required action may carry.  Ids are opaque to *)
(* the script, so lists are taken up to a renaming of the ids: the ids are *)
(* numbered in the order of their first use; an id may be listed twice.    *)
ToolCallLists ==
    {tcs \in UNION {[1..n -> ToolCalls] : n \in 0..MaxCalls} :
        \A k \in DOMAIN tcs :
            \/ tcs[k].id = 1
            \/ \E m \in 1..(k - 1) : tcs[m].id + 1 >= tcs[k].id}

(* Kinds of run.required_action: none, SubmitToolApprovalAction, any other. *)
ActionKinds == {"approval", "other"}

NoRun == [status |-> "unset", action |-> "none", tool_calls |-> <<>>]

VARIABLES
    pc,         \* position of the script
    run,        \* the script's local run object (status, required_action)
    svc,        \* the run as held by the service
    log,        \* remote operations and prints of the script, in order
    recording   \* whether log is kept (history of the execution)

vars == <<pc, run, svc, log, recording>>

Entry(op, status, ids) ==
    [op |-> op, status |-> status, ids |-> ids, fetched |-> NoRun,
     approvals |-> <<>>, order |-> ""]

\* the log entry of a runs.get: the run object it returned
GetEntry(r) == [Entry("get", r.status, <<>>) EXCEPT !.fetched = r]

Emit(entries) == IF recording THEN log \o entries ELSE log

Polls == Cardinality({i \in DOMAIN log : log[i].op = "get"})

\* mutant: the approval is built without the headers of the MCP tool
ToolApproval_NoHeaders(tool_call_id) ==
    [tool_call_id |-> tool_call_id, approve |-> TRUE, headers |-> {}]

\* lines 111-115
ToolApproval(tool_call_id) ==
    [tool_call_id |-> tool_call_id, approve |-> TRUE, headers |-> McpHeaders]

\* mutant: the isinstance check of line 107 is dropped
RECURSIVE BuildApprovals_AnyKind(_, _)
BuildApprovals_AnyKind(tool_calls, i) ==
    IF i > Len(tool_calls) THEN <<>>
    ELSE (IF ~tool_calls[i].raises
          THEN <<[tool_call_id |-> tool_calls[i].id, approve |-> TRUE,
                  headers |-> McpHeaders]>>
          ELSE <<>>) \o BuildApprovals_AnyKind(tool_calls, i + 1)

\* mutant: the loop of line 106 stops after the first approval it builds
RECURSIVE BuildApprovals_FirstOnly(_, _)
BuildApprovals_FirstOnly(tool_calls, i) ==
    IF i > Len(tool_calls) THEN <<>>
    ELSE IF tool_calls[i].mcp /\ ~tool_calls[i].raises
         THEN <<ToolApproval(tool_calls[i].id)>>
         ELSE BuildApprovals_FirstOnly(tool_calls, i + 1)

\* mutant: the try block encloses the whole loop of line 106, so the first
\* failure ends the building of approvals
RECURSIVE BuildApprovals_StopAtFailure(_, _)
BuildApprovals_StopAtFailure(tool_calls, i) ==
    IF i > Len(tool_calls) THEN <<>>
    ELSE IF tool_calls[i].mcp /\ tool_calls[i].raises THEN <<>>
    ELSE (IF tool_calls[i].mcp
          THEN <<ToolApproval(tool_calls[i].id)>>
          ELSE <<>>) \o BuildApprovals_StopAtFailure(tool_calls, i + 1)

(* Lines 105-118: the approvals built from the listed tool calls, from     *)
(* position i on: one for each MCP tool call whose approval does not raise *)
RECURSIVE BuildApprovals(_, _)
BuildApprovals(tool_calls, i) ==
    IF i > Len(tool_calls) THEN <<>>
    ELSE (IF tool_calls[i].mcp /\ ~tool_calls[i].raises
          THEN <<ToolApproval(tool_calls[i].id)>>
          ELSE <<>>) \o BuildApprovals(tool_calls, i + 1)

(* Lines 117-118: the ids logged by the except branch, in list order. *)
RECURSIVE FailedIds(_, _)
FailedIds(tool_calls, i) ==
    IF i > Len(tool_calls) THEN <<>>
    ELSE (IF tool_calls[i].mcp /\ tool_calls[i].raises
          THEN <<tool_calls[i].id>>
          ELSE <<>>) \o FailedIds(tool_calls, i + 1)

ApprovalIds(tool_approvals) ==
    [i \in 1..Len(tool_approvals) |-> tool_approvals[i].tool_call_id]

\* lines 122-124: the log entry of a runs.submit_tool_outputs, with the
\* tool_approvals it sends
SubmitEntry(tool_approvals) ==
    [Entry("submit", "", ApprovalIds(tool_approvals))
        EXCEPT !.approvals = tool_approvals]

SeqRange(s) == {s[i] : i \in DOMAIN s}

ErrorEntries(ids) == [i \in 1..Len(ids) |-> Entry("print_error", "", <<ids[i]>>)]

Init ==
    /\ pc = "create_agent"
    /\ run = NoRun
    /\ svc = [status |-> "unset", action |-> "none", tool_calls |-> <<>>,
              approved |-> {}, resumed |-> FALSE]
    /\ log = <<>>
    /\ recording = TRUE

(* ---- the script ---- *)

\* lines 42-72
CreateAgent ==
    /\ pc = "create_agent"
    /\ pc' = "create_thread"
    /\ log' = Emit(<<Entry("create_agent", "", <<>>)>>)
    /\ UNCHANGED <<run, svc, recording>>

\* lines 76-77
CreateThread ==
    /\ pc = "create_thread"
    /\ pc' = "create_message"
    /\ log' = Emit(<<Entry("create_thread", "", <<>>)>>)
    /\ UNCHANGED <<run, svc, recording>>

\* lines 81-88
CreateMessage ==
    /\ pc = "create_message"
    /\ pc' = "create_run"
    /\ log' = Emit(<<Entry("create_message", "", <<>>)>>)
    /\ UNCHANGED <<run, svc, recording>>

\* lines 90-92: the service creates the run queued and returns it
CreateRun ==
    /\ pc = "create_run"
    /\ pc' = "while"
    /\ svc' = [svc EXCEPT !.status = "queued"]
    /\ run' = [NoRun EXCEPT !.status = "queued"]
    /\ log' = Emit(<<Entry("create_run", "queued", <<>>)>>)
    /\ UNCHANGED recording

\* mutant: the loop condition forgets requires_action
LoopCondition_NoRequiresAction(status) == status \in {"queued", "in_progress"}

\* line 94: the loop condition
LoopCondition(status) == status \in ActiveStatuses

\* line 94: enter the loop body or leave the loop
While ==
    /\ pc = "while"
    /\ pc' = IF LoopCondition(run.status) THEN "poll" ELSE "after_loop"
    /\ UNCHANGED <<run, svc, log, recording>>

\* line 96: what runs.get returns: the run as the service holds it
Fetched ==
    [status |-> svc.status, action |-> svc.action,
     tool_calls |-> svc.tool_calls]

\* lines 95-96: sleep, then re-fetch the run
Poll ==
    /\ pc = "poll"
    /\ recording => Polls < MaxPolls
    /\ pc' = "handle"
    /\ run' = Fetched
    /\ log' = Emit(<<GetEntry(Fetched)>>)
    /\ UNCHANGED <<svc, recording>>

IsApprovalAction == run.status = "requires_action" /\ run.action = "approval"

\* mutant: the break of line 103 is missing
HandleCancel_NoBreak ==
    /\ pc = "handle"
    /\ IsApprovalAction
    /\ run.tool_calls = <<>>
    /\ pc' = "while"
    /\ svc' = [svc EXCEPT !.status = "cancelled", !.action = "none",
                          !.tool_calls = <<>>]
    /\ log' = Emit(<<Entry("cancel", "", <<>>)>>)
    /\ UNCHANGED <<run, recording>>

\* mutant: the run is cancelled whenever no approval can be built
HandleCancel_NothingApprovable ==
    /\ pc = "handle"
    /\ IsApprovalAction
    /\ BuildApprovals(run.tool_calls, 1) = <<>>
    /\ pc' = "after_loop"
    /\ svc' = [svc EXCEPT !.status = "cancelled", !.action = "none",
                          !.tool_calls = <<>>]
    /\ log' = Emit(<<Entry("cancel", "", <<>>)>>)
    /\ UNCHANGED <<run, recording>>

\* lines 98-103: no tool calls listed: cancel the run and break
HandleCancel ==
    /\ pc = "handle"
    /\ IsApprovalAction
    /\ run.tool_calls = <<>>
    /\ pc' = "after_loop"
    /\ svc' = [svc EXCEPT !.status = "cancelled", !.action = "none",
                          !.tool_calls = <<>>]
    /\ log' = Emit(<<Entry("cancel", "", <<>>)>>)
    /\ UNCHANGED <<run, recording>>

\* runs.submit_tool_outputs as seen by the service: approvals are recorded
\* for a run that is waiting for them
Submitted(ids) ==
    IF svc.status = "requires_action"
    THEN [svc EXCEPT !.approved = @ \cup SeqRange(ids)]
    ELSE svc

\* mutant: the run returned by submit_tool_outputs replaces the fetched one
HandleApprove_KeepsReturnedRun ==
    /\ pc = "handle"
    /\ IsApprovalAction
    /\ run.tool_calls # <<>>
    /\ LET tool_approvals == BuildApprovals(run.tool_calls, 1)
           failed == FailedIds(run.tool_calls, 1)
           ids == ApprovalIds(tool_approvals)
           returned == IF tool_approvals # <<>>
                       THEN [run EXCEPT !.status = "in_progress"] ELSE run
       IN   /\ svc' = IF tool_approvals # <<>> THEN Submitted(ids) ELSE svc
            /\ run' = returned
            /\ log' = Emit(ErrorEntries(failed)
                           \o (IF tool_approvals # <<>>
                               THEN <<SubmitEntry(tool_approvals)>> ELSE <<>>)
                           \o <<Entry("print_status", returned.status, <<>>)>>)
    /\ pc' = "while"
    /\ UNCHANGED recording

\* mutant: tool calls the service already holds an approval for are skipped
HandleApprove_SkipsApproved ==
    /\ pc = "handle"
    /\ IsApprovalAction
    /\ run.tool_calls # <<>>
    /\ LET tool_approvals ==
               SelectSeq(BuildApprovals(run.tool_calls, 1),
                         LAMBDA a : a.tool_call_id \notin svc.approved)
           failed == FailedIds(run.tool_calls, 1)
           ids == ApprovalIds(tool_approvals)
       IN   /\ svc' = IF tool_approvals # <<>> THEN Submitted(ids) ELSE svc
            /\ log' = Emit(ErrorEntries(failed)
                           \o (IF tool_approvals # <<>>
                               THEN <<SubmitEntry(tool_approvals)>> ELSE <<>>)
                           \o <<Entry("print_status", run.status, <<>>)>>)
    /\ pc' = "while"
    /\ UNCHANGED <<run, recording>>

\* lines 98-126: build the approvals, submit them when there are some
HandleApprove ==
    /\ pc = "handle"
    /\ IsApprovalAction
    /\ run.tool_calls # <<>>
    /\ LET tool_approvals == BuildApprovals(run.tool_calls, 1)
           failed == FailedIds(run.tool_calls, 1)
           ids == ApprovalIds(tool_approvals)
       IN   /\ svc' = IF tool_approvals # <<>> THEN Submitted(ids) ELSE svc
            /\ log' = Emit(ErrorEntries(failed)
                           \o (IF tool_approvals # <<>>
                               THEN <<SubmitEntry(tool_approvals)>> ELSE <<>>)
                           \o <<Entry("print_status", run.status, <<>>)>>)
    /\ pc' = "while"
    /\ UNCHANGED <<run, recording>>

\* mutant: a required action the script cannot handle cancels the run
HandleNone_CancelsUnhandled ==
    /\ pc = "handle"
    /\ ~IsApprovalAction
    /\ IF run.status = "requires_action"
       THEN /\ pc' = "after_loop"
            /\ svc' = [svc EXCEPT !.status = "cancelled", !.action = "none",
                                  !.tool_calls = <<>>]
            /\ log' = Emit(<<Entry("cancel", "", <<>>)>>)
       ELSE /\ pc' = "while"
            /\ svc' = svc
            /\ log' = Emit(<<Entry("print_status", run.status, <<>>)>>)
    /\ UNCHANGED <<run, recording>>

\* lines 98, 126: nothing to approve in this iteration
HandleNone ==
    /\ pc = "handle"
    /\ ~IsApprovalAction
    /\ pc' = "while"
    /\ log' = Emit(<<Entry("print_status", run.status, <<>>)>>)
    /\ UNCHANGED <<run, svc, recording>>

\* mutant: the script stops after the failure message of a failed run
AfterLoop_StopsOnFailure ==
    /\ pc = "after_loop"
    /\ pc' = IF run.status = "failed" THEN "done" ELSE "list_steps"
    /\ log' = Emit(<<Entry("print_final", run.status, <<>>)>>
                   \o (IF run.status = "failed"
                       THEN <<Entry("print_failed", run.status, <<>>)>>
                       ELSE <<>>))
    /\ UNCHANGED <<run, svc, recording>>

\* mutant: the failure message is printed for every status but completed
AfterLoop_FailureUnlessCompleted ==
    /\ pc = "after_loop"
    /\ pc' = "list_steps"
    /\ log' = Emit(<<Entry("print_final", run.status, <<>>)>>
                   \o (IF run.status # "completed"
                       THEN <<Entry("print_failed", run.status, <<>>)>>
                       ELSE <<>>))
    /\ UNCHANGED <<run, svc, recording>>

\* lines 128-130
AfterLoop ==
    /\ pc = "after_loop"
    /\ pc' = "list_steps"
    /\ log' = Emit(<<Entry("print_final", run.status, <<>>)>>
                   \o (IF run.status = "failed"
                       THEN <<Entry("print_failed", run.status, <<>>)>>
                       ELSE <<>>))
    /\ UNCHANGED <<run, svc, recording>>

\* mutant: the polling loop is entered once more after the run steps
ListSteps_ThenPoll ==
    /\ pc = "list_steps"
    /\ pc' = IF Polls < MaxPolls THEN "poll" ELSE "list_messages"
    /\ log' = Emit(<<Entry("list_steps", "", <<>>)>>)
    /\ UNCHANGED <<run, svc, recording>>

\* lines 133-166
ListSteps ==
    /\ pc = "list_steps"
    /\ pc' = "list_messages"
    /\ log' = Emit(<<Entry("list_steps", "", <<>>)>>)
    /\ UNCHANGED <<run, svc, recording>>

\* line 170: order=ListSortOrder.ASCENDING
MessageOrder == "ascending"

\* lines 169-177
ListMessages ==
    /\ pc = "list_messages"
    /\ pc' = "done"
    /\ log' = Emit(<<[Entry("list_messages", "", <<>>)
                        EXCEPT !.order = MessageOrder]>>)
    /\ UNCHANGED <<run, svc, recording>>

(* ---- the service ---- *)

\* queued -> in_progress
SvcStart ==
    /\ svc.status = "queued"
    /\ svc' = [svc EXCEPT !.status = "in_progress"]
    /\ UNCHANGED <<pc, run, log, recording>>

\* in_progress -> requires_action, with some required action; statuses move
\* forward only, so a run that has resumed does not ask again
SvcRequire ==
    /\ svc.status = "in_progress"
    /\ ~svc.resumed
    /\ \E kind \in ActionKinds, tcs \in ToolCallLists :
         /\ kind = "other" => tcs = <<>>
         /\ svc' = [status |-> "requires_action", action |-> kind,
                    tool_calls |-> tcs, approved |-> {},
                    resumed |-> FALSE]
    /\ UNCHANGED <<pc, run, log, recording>>

\* in_progress -> a terminal status
SvcFinish ==
    /\ svc.status = "in_progress"
    /\ \E s \in TerminalStatuses : svc' = [svc EXCEPT !.status = s]
    /\ UNCHANGED <<pc, run, log, recording>>

AllApproved ==
    /\ svc.action = "approval"
    /\ svc.tool_calls # <<>>
    /\ \A i \in DOMAIN svc.tool_calls : svc.tool_calls[i].id \in svc.approved

\* requires_action -> in_progress once every pending tool call is approved
SvcResume ==
    /\ svc.status = "requires_action"
    /\ AllApproved
    /\ svc' = [svc EXCEPT !.status = "in_progress", !.action = "none",
                          !.tool_calls = <<>>, !.approved = {},
                          !.resumed = TRUE]
    /\ UNCHANGED <<pc, run, log, recording>>

Next ==
    \/ CreateAgent
    \/ CreateThread
    \/ CreateMessage
    \/ CreateRun
    \/ While
    \/ Poll
    \/ HandleCancel
    \/ HandleApprove
    \/ HandleNone
    \/ AfterLoop
    \/ ListSteps
    \/ ListMessages
    \/ SvcStart
    \/ SvcRequire
    \/ SvcFinish
    \/ SvcResume

Spec == Init /\ [][Next]_vars

(* The same program without the history log, so that the number of polls   *)
(* is not bounded.  The script always takes its next step; the service is  *)
(* fair: a queued or in_progress run eventually changes status, and a run  *)
(* whose pending tool calls are all approved eventually leaves             *)
(* requires_action.                                                        *)
LiveInit ==
    /\ pc = "create_agent"
    /\ run = NoRun
    /\ svc = [status |-> "unset", action |-> "none", tool_calls |-> <<>>,
              approved |-> {}, resumed |-> FALSE]
    /\ log = <<>>
    /\ recording = FALSE

Script ==
    \/ CreateAgent \/ CreateThread \/ CreateMessage \/ CreateRun
    \/ While \/ Poll \/ HandleCancel \/ HandleApprove \/ HandleNone
    \/ AfterLoop \/ ListSteps \/ ListMessages

LiveSpec ==
    /\ LiveInit
    /\ [][Next]_vars
    /\ WF_vars(Script)
    /\ WF_vars(SvcStart)
    /\ WF_vars(SvcRequire \/ SvcFinish)
    /\ WF_vars(SvcResume)

(* ---- reading the history log ---- *)

Gets == {i \in DOMAIN log : log[i].op = "get"}

\* the entries the iteration that starts with the fetch at i has written
IterIdx(i) ==
    {j \in (i + 1)..Len(log) :
        /\ \A k \in (i + 1)..j : log[k].op # "get"
        /\ log[j].op \in {"print_error", "submit", "cancel", "print_status"}}

IterOps(i, op) == {j \in IterIdx(i) : log[j].op = op}

\* the iteration of the fetch at i has run to its end (line 103 or line 126)
IterDone(i) == IterOps(i, "cancel") \cup IterOps(i, "print_status") # {}

Count(s, v) == Cardinality({k \in DOMAIN s : s[k] = v})

\* the ids submitted, and the ids logged as failed, by the iteration at i
IterSubmitted(i) ==
    IF IterOps(i, "submit") = {} THEN <<>>
    ELSE log[CHOOSE j \in IterOps(i, "submit") : TRUE].ids

IterFailed(i) == {log[j].ids[1] : j \in IterOps(i, "print_error")}

IsApprovalFetch(r) == r.status = "requires_action" /\ r.action = "approval"

McpIdsOf(r) == {r.tool_calls[k].id : k \in {m \in DOMAIN r.tool_calls : r.tool_calls[m].mcp}}

AllIdsOf(r) == {r.tool_calls[k].id : k \in DOMAIN r.tool_calls}

LoopLeft == pc \in {"after_loop", "list_steps", "list_messages", "done"}

CancelIssued == \E i \in DOMAIN log : log[i].op = "cancel"

(* ---- C1 ---- *)

\* C1 as stated: once the polling loop has been left, the status the script
\* holds (and prints as the final status) is not queued, in_progress or
\* requires_action.
C1_StatusLeftSetAtExit == LoopLeft => run.status \notin ActiveStatuses

\* C1, amended: the loop body is entered only while the held status is
\* queued, in_progress or requires_action; once the loop has been left, either
\* the held status is outside that set, or the loop was left by the break of
\* the cancel path and the held status is still requires_action.
C1_LoopExit ==
    /\ pc = "poll" => run.status \in ActiveStatuses
    /\ LoopLeft =>
         \/ run.status \in TerminalStatuses /\ ~CancelIssued
         \/ /\ run.status = "requires_action"
            /\ CancelIssued
            /\ \E i \in Gets : IterOps(i, "cancel") # {}

C1_Witness ==
    /\ pc = "after_loop"
    /\ run.status \in TerminalStatuses
    /\ Polls >= 2

(* ---- C2 ---- *)

\* C2 as stated: every completed iteration whose fetch returned
\* requires_action with a tool-approval action listing at least one tool call
\* has submitted approvals whose ids are exactly the ids of all listed tool
\* calls, whatever their kind.
C2_ApprovesEveryListedCall ==
    \A i \in Gets :
        (IterDone(i) /\ IsApprovalFetch(log[i].fetched)
                     /\ log[i].fetched.tool_calls # <<>>)
        => /\ IterOps(i, "submit") # {}
           /\ SeqRange(IterSubmitted(i)) = AllIdsOf(log[i].fetched)

\* C2, amended: such an iteration approves exactly the listed MCP tool calls
\* whose approval could be built: every tool call of another kind is skipped,
\* each listed MCP tool call is either approved or logged as failed, and the
\* approvals are submitted (once, in that iteration) if and only if at least
\* one was built.  With no failure the submitted ids are the ids of the
\* listed MCP tool calls.
C2_ApprovesListedMcpCalls ==
    \A i \in Gets :
        (IterDone(i) /\ IsApprovalFetch(log[i].fetched)
                     /\ log[i].fetched.tool_calls # <<>>)
        => LET r == log[i].fetched
               mcpIds == [k \in 1..Len(r.tool_calls) |->
                            IF r.tool_calls[k].mcp THEN r.tool_calls[k].id ELSE 0]
               failedSeq == [k \in 1..Cardinality(IterOps(i, "print_error")) |->
                               log[i + k].ids[1]]
           IN /\ Cardinality(IterOps(i, "submit")) <= 1
              /\ IterOps(i, "submit") # {} <=> IterSubmitted(i) # <<>>
              /\ \A v \in 1..MaxCalls :
                    Count(IterSubmitted(i), v) + Count(failedSeq, v)
                        = Count(mcpIds, v)
              /\ IterOps(i, "print_error") = {}
                    => SeqRange(IterSubmitted(i)) = McpIdsOf(r)

C2_Witness ==
    \E i \in Gets :
        /\ IterDone(i)
        /\ IsApprovalFetch(log[i].fetched)
        /\ Len(log[i].fetched.tool_calls) = 2
        /\ log[i].fetched.tool_calls[1].mcp
        /\ ~log[i].fetched.tool_calls[2].mcp
        /\ IterSubmitted(i) = <<log[i].fetched.tool_calls[1].id>>

(* ---- C3 ---- *)

\* C3: when a fetch returns requires_action with a tool-approval action that
\* lists no tool call, the iteration issues one cancel (the very next
\* operation), submits no approvals, and the script never polls, submits or
\* cancels again: the loop is left at once.
C3_EmptyListCancels ==
    \A i \in Gets :
        (IsApprovalFetch(log[i].fetched) /\ log[i].fetched.tool_calls = <<>>)
        => \/ i = Len(log) /\ pc = "handle"
           \/ /\ i < Len(log)
              /\ log[i + 1].op = "cancel"
              /\ \A j \in (i + 2)..Len(log) :
                    log[j].op \notin {"get", "submit", "cancel", "print_status"}
              /\ LoopLeft

C3_Witness ==
    /\ pc = "done"
    /\ \E i \in Gets :
          /\ IsApprovalFetch(log[i].fetched)
          /\ log[i].fetched.tool_calls = <<>>
          /\ log[i + 1].op = "cancel"

(* ---- C4 ---- *)

\* the script has seen a terminal status, or has left the loop by the cancel
\* path
ObservedEnd ==
    \/ run.status \in TerminalStatuses
    \/ LoopLeft /\ run.status = "requires_action"

ServiceAsksOnlyMcpApprovals ==
    svc.status = "requires_action" =>
        /\ svc.action = "approval"
        /\ \A k \in DOMAIN svc.tool_calls :
              svc.tool_calls[k].mcp /\ ~svc.tool_calls[k].raises

Handled(i) == i < Len(log) \/ pc # "handle"

RaisingAt(r) == {k \in DOMAIN r.tool_calls : r.tool_calls[k].raises}

\* C5: when building the approval of a listed tool call fails, the failure is
\* logged for that call and the script goes on: every other listed MCP tool
\* call, before or after the failing one, is still approved, the approvals
\* built are submitted in the same iteration, and the iteration runs to its
\* end (the status print of line 126) with the loop continuing.
C5_FailureIsContained ==
    \A i \in Gets :
        LET r == log[i].fetched IN
        (Handled(i) /\ IsApprovalFetch(r) /\ RaisingAt(r) # {})
        => /\ Cardinality(IterOps(i, "print_error")) = Cardinality(RaisingAt(r))
           /\ \A k \in RaisingAt(r) : r.tool_calls[k].id \in IterFailed(i)
           /\ \A k \in DOMAIN r.tool_calls :
                 (r.tool_calls[k].mcp /\ ~r.tool_calls[k].raises)
                 => /\ IterOps(i, "submit") # {}
                    /\ r.tool_calls[k].id \in SeqRange(IterSubmitted(i))
           /\ IterOps(i, "print_status") # {}
           /\ IterOps(i, "cancel") = {}

C5_Witness ==
    \E i \in Gets :
        LET r == log[i].fetched IN
        /\ Handled(i)
        /\ IsApprovalFetch(r)
        /\ Len(r.tool_calls) = 2
        /\ r.tool_calls[1].raises
        /\ r.tool_calls[2].mcp /\ ~r.tool_calls[2].raises
        /\ r.tool_calls[2].id # r.tool_calls[1].id
        /\ IterSubmitted(i) = <<r.tool_calls[2].id>>
        /\ IterFailed(i) = {r.tool_calls[1].id}

(* ---- C6 ---- *)

OpsAt(op) == {i \in DOMAIN log : log[i].op = op}

\* C6: exactly one run is created, before the first poll and never again;
\* the failure message is printed at most once, right after the final status
\* print, and it has been printed once the loop is behind if and only if the
\* status held at loop exit is failed.  No poll follows the final status.
C6_OneRunFailureLogged ==
    /\ Cardinality(OpsAt("create_run")) <= 1
    /\ pc \notin {"create_agent", "create_thread", "create_message", "create_run"}
          => Cardinality(OpsAt("create_run")) = 1
    /\ \A i \in OpsAt("create_run") : \A j \in Gets : i < j
    /\ Cardinality(OpsAt("print_failed")) <= 1
    /\ \A i \in OpsAt("print_failed") :
          /\ i > 1
          /\ log[i - 1].op = "print_final"
          /\ log[i - 1].status = "failed"
    /\ \A i \in OpsAt("print_final") :
          /\ log[i].status = run.status
          /\ \A j \in (i + 1)..Len(log) :
                log[j].op \notin {"get", "create_run", "submit", "cancel"}
    /\ pc \in {"list_steps", "list_messages", "done"}
          => (OpsAt("print_failed") # {} <=> run.status = "failed")
    /\ pc \notin {"list_steps", "list_messages", "done"}
          => OpsAt("print_failed") = {}

C6_Witness ==
    /\ pc = "done"
    /\ run.status = "failed"
    /\ OpsAt("print_failed") # {}
    /\ Cardinality(OpsAt("create_run")) = 1

(* ---- C7 ---- *)

RemoteOps ==
    {"create_agent", "create_thread", "create_message", "create_run",
     "get", "submit", "cancel", "list_steps", "list_messages"}

\* the place of a remote operation in the order of the script
Rank(op) ==
    CASE op = "create_agent" -> 1
      [] op = "create_thread" -> 2
      [] op = "create_message" -> 3
      [] op = "create_run" -> 4
      [] op \in {"get", "submit", "cancel"} -> 5
      [] op = "list_steps" -> 6
      [] op = "list_messages" -> 7

Remote == {i \in DOMAIN log : log[i].op \in RemoteOps}

\* C7: the remote operations happen in the order create agent, create
\* thread, create message, create run, polls (with their submissions and
\* cancel), list run steps, list messages: each of the six others happens at
\* most once, none is skipped, every poll, submission and cancel lies between
\* the run creation and the run-step listing, and a finished execution has
\* performed all six.
C7_FixedOrder ==
    /\ \A i, j \in Remote :
          i < j => /\ Rank(log[i].op) <= Rank(log[j].op)
                   /\ Rank(log[i].op) = Rank(log[j].op) => Rank(log[i].op) = 5
    /\ \A j \in Remote :
          \A r \in (1..(Rank(log[j].op) - 1)) \ {5} :
              \E i \in Remote : i < j /\ Rank(log[i].op) = r
    /\ pc = "done" =>
          \A r \in {1, 2, 3, 4, 6, 7} : \E i \in Remote : Rank(log[i].op) = r

C7_Witness ==
    /\ pc = "done"
    /\ Polls >= 2
    /\ OpsAt("submit") # {}
    /\ log[Len(log)].op = "list_messages"

(* ---- C8 ---- *)

\* C8: a cancel is issued at most once, and only as the operation that
\* directly follows a fetch returning requires_action with a tool-approval
\* action that lists no tool call; so never for a non-empty list, and never
\* for a queued, in_progress or terminal run.
C8_CancelOnlyOnEmptyList ==
    /\ Cardinality(OpsAt("cancel")) <= 1
    /\ \A j \in OpsAt("cancel") :
          /\ j > 1
          /\ log[j - 1].op = "get"
          /\ IsApprovalFetch(log[j - 1].fetched)
          /\ log[j - 1].fetched.tool_calls = <<>>
    /\ \A i \in Gets :
          (Handled(i) /\ ~(IsApprovalFetch(log[i].fetched)
                           /\ log[i].fetched.tool_calls = <<>>))
          => IterOps(i, "cancel") = {}

C8_Witness ==
    /\ pc = "after_loop"
    /\ Cardinality(OpsAt("cancel")) = 1
    /\ Polls >= 2

(* ---- C9 ---- *)

\* the fetch that opens the iteration the entry at j belongs to
FetchOf(j) == CHOOSE i \in Gets : i < j /\ \A k \in Gets : k < j => k <= i

\* C9: every iteration fetches the run once and acts on that fetch alone:
\* each submission and each cancel belongs to an iteration whose fetch
\* returned requires_action, with nothing but failure logs in between; an
\* iteration submits at most once or cancels at most once, never both; the
\* status printed at the end of an iteration is the status that iteration
\* fetched, so after a submission it is requires_action; and there is exactly
\* one fetch per iteration.
C9_ActsOnFreshFetch ==
    /\ \A j \in OpsAt("submit") \cup OpsAt("cancel") :
          /\ \E i \in Gets : i < j
          /\ log[FetchOf(j)].status = "requires_action"
          /\ \A k \in (FetchOf(j) + 1)..(j - 1) : log[k].op = "print_error"
    /\ \A i \in Gets :
          Cardinality(IterOps(i, "submit") \cup IterOps(i, "cancel")) <= 1
    /\ \A j \in OpsAt("print_status") :
          /\ \E i \in Gets : i < j
          /\ log[j].status = log[FetchOf(j)].status
          /\ log[j - 1].op = "submit" => log[j].status = "requires_action"
    /\ \A i \in Gets : Cardinality(IterOps(i, "print_status")) <= 1
    /\ \A j \in OpsAt("submit") :
          j < Len(log) /\ log[j + 1].op = "print_status"

C9_Witness ==
    /\ pc = "while"
    /\ Len(log) >= 2
    /\ log[Len(log)].op = "print_status"
    /\ log[Len(log)].status = "requires_action"
    /\ log[Len(log) - 1].op = "submit"
    /\ svc.status = "in_progress"

(* ---- C10 ---- *)

\* C10: the script keeps no record of what it has approved: two handled
\* iterations that fetched the same tool-approval action do the same, so
\* every iteration that fetches a pending MCP tool call whose approval can be
\* built submits it again, whether or not an earlier iteration already did.
C10_RequiredActionRevisited ==
    /\ \A i, j \in Gets :
          (/\ i < j
           /\ Handled(j)
           /\ IsApprovalFetch(log[i].fetched)
           /\ log[j].fetched = log[i].fetched)
          => /\ IterSubmitted(j) = IterSubmitted(i)
             /\ IterFailed(j) = IterFailed(i)
    /\ \A j \in Gets :
          LET r == log[j].fetched IN
          (Handled(j) /\ IsApprovalFetch(r))
          => \A k \in DOMAIN r.tool_calls :
                (r.tool_calls[k].mcp /\ ~r.tool_calls[k].raises)
                => Count(IterSubmitted(j), r.tool_calls[k].id) >= 1

C10_Witness ==
    \E i, j \in Gets :
        /\ i < j
        /\ Handled(j)
        /\ IterSubmitted(i) # <<>>
        /\ IterSubmitted(j) = IterSubmitted(i)

(* ---- C11 ---- *)

\* the fetched run is queued or in_progress, or requires an action that is
\* not a tool-approval action
NothingToApprove(r) ==
    \/ r.status \in {"queued", "in_progress"}
    \/ r.status = "requires_action" /\ r.action # "approval"

C11_NoRemoteEffect ==
    \A i \in Gets :
        (Handled(i) /\ NothingToApprove(log[i].fetched))
        => /\ IterOps(i, "submit") = {}
           /\ IterOps(i, "cancel") = {}
           /\ log[i + 1].op = "print_status"
           /\ i + 1 < Len(log) => log[i + 2].op = "get"
           /\ i + 1 = Len(log) => pc \in {"while", "poll"}

C11_ScriptStep ==
    (pc' # pc /\ NothingToApprove(run)) =>
        /\ pc = "handle" => svc' = svc /\ pc' = "while"
        /\ pc = "while" => svc' = svc /\ pc' = "poll"

\* C11: an iteration whose fetch returned queued, in_progress, or
\* requires_action with a required action that is not a tool-approval action
\* leaves the run on the service as it is: it sends neither a submission nor
\* a cancel, only prints the status, and the loop condition then sends the
\* script to the next sleep and poll.
C11_IdleIterationChangesNothing ==
    []C11_NoRemoteEffect /\ [][C11_ScriptStep]_vars

C11_Witness ==
    \E i \in Gets :
        /\ log[i].fetched.status = "requires_action"
        /\ log[i].fetched.action = "other"
        /\ i + 2 <= Len(log)
        /\ log[i + 1].op = "print_status"
        /\ log[i + 2].op = "get"

(* ---- C12 ---- *)

\* C12: every submission is well formed: it carries at least one approval;
\* each approval has approve = TRUE, the id of a tool call listed in the
\* required action fetched in the same iteration, and the headers of the MCP
\* tool with the subscription-key header; and an id occurs in a submission no
\* more often than it is listed.
C12_SubmissionWellFormed ==
    \A j \in OpsAt("submit") :
        LET sent == log[j].approvals
            r == log[FetchOf(j)].fetched
            listed == [k \in 1..Len(r.tool_calls) |-> r.tool_calls[k].id]
        IN /\ sent # <<>>
           /\ IsApprovalFetch(r)
           /\ \A k \in DOMAIN sent :
                 /\ sent[k].approve = TRUE
                 /\ sent[k].tool_call_id \in AllIdsOf(r)
                 /\ "Ocp-Apim-Subscription-Key" \in sent[k].headers
                 /\ sent[k].headers = McpHeaders
           /\ \A v \in AllIdsOf(r) :
                 Count(ApprovalIds(sent), v) <= Count(listed, v)
           /\ log[j].ids = ApprovalIds(sent)

C12_Witness ==
    \E j \in OpsAt("submit") :
        /\ Len(log[j].approvals) = 2
        /\ log[j].approvals[1].tool_call_id = log[j].approvals[2].tool_call_id
        /\ log[j].approvals[1].headers = {"Ocp-Apim-Subscription-Key"}

(* ---- C13 ---- *)

C13_ReportOnce ==
    /\ \A i \in DOMAIN log :
          log[i].op \notin {"delete_agent", "delete_thread", "delete_run"}
    /\ Cardinality(OpsAt("list_steps")) <= 1
    /\ Cardinality(OpsAt("list_messages")) <= 1
    /\ \A j \in OpsAt("list_messages") : log[j].order = "ascending"
    /\ \A i \in OpsAt("list_steps") :
          /\ \E k \in OpsAt("print_final") : k < i
          /\ \A j \in OpsAt("list_messages") : i < j
    /\ pc \notin {"list_messages", "done"} => OpsAt("list_steps") = {}
    /\ pc # "done" => OpsAt("list_messages") = {}
    /\ pc = "list_messages" => Cardinality(OpsAt("list_steps")) = 1
    /\ pc = "done" =>
          /\ Cardinality(OpsAt("list_steps")) = 1
          /\ Cardinality(OpsAt("list_messages")) = 1
          /\ log[Len(log)].op = "list_messages"
          /\ log[Len(log) - 1].op = "list_steps"

C13_ReportStep ==
    (pc' # pc /\ LoopLeft) =>
        /\ pc = "after_loop" => pc' = "list_steps"
        /\ pc = "list_steps" => pc' = "list_messages"
        /\ pc = "list_messages" => pc' = "done"
        /\ svc' = svc

\* C13: however the loop is left (completed, failed, cancelled, or the cancel
\* path with requires_action still held), the script goes on from the final
\* status print to list the run steps once and then the messages once, in
\* ascending order; a finished execution has done both, in that order, as its
\* last two operations, and no delete of the agent, thread or run is sent.
C13_ReportingAlwaysRuns == []C13_ReportOnce /\ [][C13_ReportStep]_vars

C13_Witness ==
    /\ pc = "done"
    /\ run.status = "requires_action"
    /\ CancelIssued
    /\ log[Len(log)].op = "list_messages"
    /\ log[Len(log)].order = "ascending"
    /\ log[Len(log) - 1].op = "list_steps"
====
